---- MODULE Spec2Model ----
(***************************************************************************)
(* Model of the Dremio query-profile analyzers                             *)
(*   src/analyze_profile.py            (script "analyze_profile")          *)
(*   src/detailed_profile_analysis.py  (script "detailed_profile_analysis")*)
(*                                                                         *)
(* A profile document is a Python dict decoded from JSON.  A dict is       *)
(* modelled as a function whose DOMAIN is the set of keys that are present,*)
(* a list as a sequence.  Python integers are unbounded; every value used  *)
(* here stays far below 2^31, so no arithmetic of the model wraps.         *)
(*                                                                         *)
(* Float arithmetic: the only float results that decide anything are the   *)
(* comparisons  output/input < 0.01  and  output/input > 0.8.  Python's    *)
(* int/int division is correctly rounded, so for operands below 2^53/100   *)
(* these agree with the exact comparisons  100*output < input  and         *)
(* 5*output > 4*input, which is how they are written here.                 *)
(***************************************************************************)
EXTENDS Integers, Sequences, FiniteSets, TLC

VARIABLES
    profile_data,          \* the decoded profile document (json.load)
    script,                \* which of the two programs is running
    pc,                    \* position inside that program's main function
    operators,             \* result of analyze_operators / extract_detailed_metrics
    phases,                \* result of analyze_phases
    summary,               \* values printed by print_summary_stats / OVERALL STATISTICS
    type_distribution,     \* rows printed by print_operator_type_distribution
    sorted_operators,      \* sorted_operators of print_top_operators / print_detailed_operator_breakdown
    sorted_phases,         \* sorted_phases of print_top_phases
    longest,               \* the LONGEST RUNNING OPERATOR / PHASE lines
    high_wait_ops,         \* analyze_bottlenecks: printed HIGH WAIT TIME list
    high_memory_ops,       \* analyze_bottlenecks: printed HIGH MEMORY USAGE list
    high_record_ops,       \* analyze_bottlenecks: printed HIGH RECORD VOLUME list
    poor_selectivity_ops,  \* analyze_bottlenecks: printed LOW SELECTIVITY list
    recommendations,       \* print_performance_recommendations: recommendations
    top_operators,         \* rows printed for sorted_operators[:top_n]
    top_phases,            \* rows printed for sorted_phases[:top_n]
    zero_division,         \* TRUE once a division by zero has been evaluated
    stdout                 \* status lines printed by the main function

vars == <<profile_data, script, pc, operators, phases, summary, type_distribution,
          sorted_operators, sorted_phases, longest, high_wait_ops, high_memory_ops,
          high_record_ops, poor_selectivity_ops, recommendations, top_operators,
          top_phases, zero_division, stdout>>

-----------------------------------------------------------------------------
(* Python primitives *)

\* {} : the dict with no key
EmptyDict == [k \in {} |-> 0]

\* d.get(key, default)
Get(d, key, default) == IF key \in DOMAIN d THEN d[key] ELSE default

\* sub in s   (substring test on str)
Contains(s, sub) ==
    \E i \in 1..(Len(s) - Len(sub) + 1) : SubSeq(s, i, i + Len(sub) - 1) = sub

\* str(n) as interpolated by an f-string
Str(n) == ToString(n)

RECURSIVE Sum(_)
\* sum(xs) over a list of integers
Sum(xs) == IF xs = <<>> THEN 0 ELSE Head(xs) + Sum(Tail(xs))

RECURSIVE ConcatPrepend(_)
\* a loop that puts each new group of records in front of the earlier ones
ConcatPrepend(xss) == IF xss = <<>> THEN <<>> ELSE ConcatPrepend(Tail(xss)) \o Head(xss)

RECURSIVE Concat(_)
\* the list built by appending, in order, every element of every list of xss
Concat(xss) == IF xss = <<>> THEN <<>> ELSE Head(xss) \o Concat(Tail(xss))

\* [f(x) for x in xs] for a list xs
Map(xs, F(_)) == [i \in 1..Len(xs) |-> F(xs[i])]

\* [x for x in xs if P(x)]
Filter(xs, P(_)) == SelectSeq(xs, P)

\* xs[::-1]
Reverse(xs) == [i \in 1..Len(xs) |-> xs[Len(xs) + 1 - i]]

\* xs[:n]
Take(xs, n) == SubSeq(xs, 1, IF n < Len(xs) THEN n ELSE Len(xs))

-----------------------------------------------------------------------------
(* Operator catalog: get_operator_type_name, one copy in each script *)

operator_types ==
    (0 :> "SingleSender") @@ (1 :> "BroadcastSender") @@ (2 :> "Filter") @@
    (3 :> "HashAggregate") @@ (4 :> "HashJoin") @@ (5 :> "MergeJoin") @@
    (6 :> "HashPartitionSender") @@ (7 :> "Limit") @@ (8 :> "MergingReceiver") @@
    (9 :> "OrderedPartitionSender") @@ (10 :> "Project") @@
    (11 :> "UnorderedReceiver") @@ (12 :> "RangeSender") @@ (13 :> "Screen") @@
    (14 :> "SelectionVectorRemover") @@ (15 :> "StreamingAggregate") @@
    (16 :> "TopNSort") @@ (17 :> "ExternalSort") @@ (18 :> "Trace") @@
    (19 :> "Union") @@ (20 :> "OldSort") @@ (21 :> "ParquetRowGroupScan") @@
    (22 :> "HiveSubScan") @@ (23 :> "SystemTableScan") @@ (24 :> "MockSubScan") @@
    (25 :> "ParquetWriter") @@ (26 :> "DirectSubScan") @@ (27 :> "TextWriter") @@
    (28 :> "TextSubScan") @@ (29 :> "JsonSubScan") @@ (30 :> "InfoSchemaSubScan") @@
    (31 :> "ComplexToJson") @@ (32 :> "ProducerConsumer") @@ (33 :> "HbaseSubScan") @@
    (34 :> "Window") @@ (35 :> "NestedLoopJoin") @@ (36 :> "AvroSubScan") @@
    (37 :> "MongoSubScan") @@ (38 :> "ElasticsearchSubScan") @@
    (39 :> "ElasticsearchAggregatorSubScan") @@ (40 :> "Flatten") @@
    (41 :> "ExcelSubScan") @@ (42 :> "ArrowSubScan") @@ (43 :> "ArrowWriter") @@
    (44 :> "JsonWriter") @@ (45 :> "ValuesReader") @@ (46 :> "ConvertFromJson") @@
    (47 :> "JdbcSubScan") @@ (48 :> "DictionaryLookup") @@ (49 :> "WriterCommitter") @@
    (50 :> "RoundRobinSender") @@ (51 :> "BoostParquet") @@ (52 :> "IcebergSubScan") @@
    (53 :> "TableFunction") @@ (54 :> "DeltalakeSubScan") @@
    (55 :> "DirListingSubScan") @@ (56 :> "IcebergWriterCommitter") @@
    (57 :> "GrpcWriter") @@ (58 :> "ManifestWriter") @@ (59 :> "FlightSubScan") @@
    (60 :> "BridgeFileWriterSender") @@ (61 :> "BridgeFileReaderReceiver") @@
    (62 :> "BridgeFileReader") @@ (63 :> "IcebergManifestWriter") @@
    (64 :> "IcebergMetadataFunctionsReader") @@ (65 :> "IcebergSnapshotsSubScan") @@
    (66 :> "NessieCommitsSubScan") @@ (67 :> "SmallFileCombinationWriter") @@
    (68 :> "ArrowWriterAuxiliary")

\* the catalog as it was before the fix: code 3 named "HashAgg"
get_operator_type_name_legacy(operator_type) ==
    IF operator_type = 3 THEN "HashAgg"
    ELSE IF operator_type \in DOMAIN operator_types
         THEN operator_types[operator_type]
         ELSE "Unknown(" \o Str(operator_type) \o ")"

\* operator_types.get(operator_type, f"Unknown({operator_type})")
get_operator_type_name(operator_type) ==
    IF operator_type \in DOMAIN operator_types
    THEN operator_types[operator_type]
    ELSE "Unknown(" \o Str(operator_type) \o ")"

\* detailed_profile_analysis.py keeps its own copy of the catalog (lines 42-112)
detailed_operator_types ==
    (0 :> "SingleSender") @@ (1 :> "BroadcastSender") @@ (2 :> "Filter") @@
    (3 :> "HashAggregate") @@ (4 :> "HashJoin") @@ (5 :> "MergeJoin") @@
    (6 :> "HashPartitionSender") @@ (7 :> "Limit") @@ (8 :> "MergingReceiver") @@
    (9 :> "OrderedPartitionSender") @@ (10 :> "Project") @@
    (11 :> "UnorderedReceiver") @@ (12 :> "RangeSender") @@ (13 :> "Screen") @@
    (14 :> "SelectionVectorRemover") @@ (15 :> "StreamingAggregate") @@
    (16 :> "TopNSort") @@ (17 :> "ExternalSort") @@ (18 :> "Trace") @@
    (19 :> "Union") @@ (20 :> "OldSort") @@ (21 :> "ParquetRowGroupScan") @@
    (22 :> "HiveSubScan") @@ (23 :> "SystemTableScan") @@ (24 :> "MockSubScan") @@
    (25 :> "ParquetWriter") @@ (26 :> "DirectSubScan") @@ (27 :> "TextWriter") @@
    (28 :> "TextSubScan") @@ (29 :> "JsonSubScan") @@ (30 :> "InfoSchemaSubScan") @@
    (31 :> "ComplexToJson") @@ (32 :> "ProducerConsumer") @@ (33 :> "HbaseSubScan") @@
    (34 :> "Window") @@ (35 :> "NestedLoopJoin") @@ (36 :> "AvroSubScan") @@
    (37 :> "MongoSubScan") @@ (38 :> "ElasticsearchSubScan") @@
    (39 :> "ElasticsearchAggregatorSubScan") @@ (40 :> "Flatten") @@
    (41 :> "ExcelSubScan") @@ (42 :> "ArrowSubScan") @@ (43 :> "ArrowWriter") @@
    (44 :> "JsonWriter") @@ (45 :> "ValuesReader") @@ (46 :> "ConvertFromJson") @@
    (47 :> "JdbcSubScan") @@ (48 :> "DictionaryLookup") @@ (49 :> "WriterCommitter") @@
    (50 :> "RoundRobinSender") @@ (51 :> "BoostParquet") @@ (52 :> "IcebergSubScan") @@
    (53 :> "TableFunction") @@ (54 :> "DeltalakeSubScan") @@
    (55 :> "DirListingSubScan") @@ (56 :> "IcebergWriterCommitter") @@
    (57 :> "GrpcWriter") @@ (58 :> "ManifestWriter") @@ (59 :> "FlightSubScan") @@
    (60 :> "BridgeFileWriterSender") @@ (61 :> "BridgeFileReaderReceiver") @@
    (62 :> "BridgeFileReader") @@ (63 :> "IcebergManifestWriter") @@
    (64 :> "IcebergMetadataFunctionsReader") @@ (65 :> "IcebergSnapshotsSubScan") @@
    (66 :> "NessieCommitsSubScan") @@ (67 :> "SmallFileCombinationWriter") @@
    (68 :> "ArrowWriterAuxiliary")

\* a copy of the catalog that was not brought up to date: code 3 still "HashAgg"
detailed_get_operator_type_name_stale(operator_type) ==
    IF operator_type = 3 THEN "HashAgg"
    ELSE IF operator_type \in DOMAIN detailed_operator_types
         THEN detailed_operator_types[operator_type]
         ELSE "Unknown(" \o Str(operator_type) \o ")"

\* get_operator_type_name of detailed_profile_analysis.py
detailed_get_operator_type_name(operator_type) ==
    IF operator_type \in DOMAIN detailed_operator_types
    THEN detailed_operator_types[operator_type]
    ELSE "Unknown(" \o Str(operator_type) \o ")"

-----------------------------------------------------------------------------
(* analyze_profile.py: analyze_operators, analyze_phases *)

\* an extraction that takes the total from the document when it declares one
OperatorTimingTrustsInput(op, major_fragment_id, minor_fragment_id) ==
    LET operator_type == Get(op, "operatorType", 0)
        setup_nanos == Get(op, "setupNanos", 0)
        process_nanos == Get(op, "processNanos", 0)
        wait_nanos == Get(op, "waitNanos", 0)
    IN [operator_id |-> Get(op, "operatorId", 0),
        operator_type |-> operator_type,
        operator_name |-> get_operator_type_name(operator_type),
        setup_nanos |-> setup_nanos,
        process_nanos |-> process_nanos,
        wait_nanos |-> wait_nanos,
        total_nanos |-> Get(op, "totalNanos", setup_nanos + process_nanos + wait_nanos),
        fragment_id |-> major_fragment_id,
        minor_fragment_id |-> minor_fragment_id]

\* the OperatorTiming appended for one operator record (loop body, lines 129-149)
OperatorTiming(op, major_fragment_id, minor_fragment_id) ==
    LET operator_id == Get(op, "operatorId", 0)
        operator_type == Get(op, "operatorType", 0)
        setup_nanos == Get(op, "setupNanos", 0)
        process_nanos == Get(op, "processNanos", 0)
        wait_nanos == Get(op, "waitNanos", 0)
    IN [operator_id |-> operator_id,
        operator_type |-> operator_type,
        operator_name |-> get_operator_type_name(operator_type),
        setup_nanos |-> setup_nanos,
        process_nanos |-> process_nanos,
        wait_nanos |-> wait_nanos,
        total_nanos |-> setup_nanos + process_nanos + wait_nanos,
        fragment_id |-> major_fragment_id,
        minor_fragment_id |-> minor_fragment_id]

\* an extraction that skips operator records lacking one of the timing fields
MinorFragmentTimingsSkipIncomplete(minor_fragment, major_fragment_id) ==
    LET minor_fragment_id == Get(minor_fragment, "minorFragmentId", 0)
        operator_profiles == Get(minor_fragment, "operatorProfile", <<>>)
        Complete(op) == {"setupNanos", "processNanos", "waitNanos"} \subseteq DOMAIN op
        Row(op) == OperatorTiming(op, major_fragment_id, minor_fragment_id)
    IN Map(Filter(operator_profiles, Complete), Row)

\* the records appended while iterating one minor fragment (lines 125-149)
MinorFragmentTimings(minor_fragment, major_fragment_id) ==
    LET minor_fragment_id == Get(minor_fragment, "minorFragmentId", 0)
        operator_profiles == Get(minor_fragment, "operatorProfile", <<>>)
        Row(op) == OperatorTiming(op, major_fragment_id, minor_fragment_id)
    IN Map(operator_profiles, Row)

\* the records appended while iterating one fragment (lines 121-149)
FragmentTimings(fragment) ==
    LET major_fragment_id == Get(fragment, "majorFragmentId", 0)
        minor_fragments == Get(fragment, "minorFragmentProfile", <<>>)
        Rows(minor_fragment) == MinorFragmentTimings(minor_fragment, major_fragment_id)
    IN Concat(Map(minor_fragments, Rows))

analyze_operators(doc) ==
    LET fragment_profiles == Get(doc, "fragmentProfile", <<>>)
    IN Concat(Map(fragment_profiles, FragmentTimings))

\* the PhaseTiming appended for one phase record (lines 159-166)
PhaseTiming(phase) ==
    [phase_name |-> Get(phase, "phaseName", "Unknown"),
     duration_millis |-> Get(phase, "durationMillis", 0)]

analyze_phases(doc) ==
    LET plan_phases == Get(doc, "planPhases", <<>>)
    IN Map(plan_phases, PhaseTiming)

-----------------------------------------------------------------------------
(* detailed_profile_analysis.py: extract_detailed_metrics *)

RECURSIVE MetricsDict(_)
\* the metrics dict filled by the loop over op.get("metric", []) (lines 146-152):
\* a later entry with the same metricId overwrites an earlier one, and an entry
\* with neither longValue nor doubleValue is skipped
MetricsDict(metric_list) ==
    IF metric_list = <<>> THEN EmptyDict
    ELSE LET n == Len(metric_list)
             metric == metric_list[n]
             metric_id == Get(metric, "metricId", 0)
             key == "metric_" \o Str(metric_id)
             before == MetricsDict(SubSeq(metric_list, 1, n - 1))
         IN IF "longValue" \in DOMAIN metric
            THEN (key :> metric["longValue"]) @@ before
            ELSE IF "doubleValue" \in DOMAIN metric
                 THEN (key :> metric["doubleValue"]) @@ before
                 ELSE before

\* ip.get("records", 0) for ip in input_profiles
InputRecordsOf(ip) == Get(ip, "records", 0)

\* ip.get("size", 0) for ip in input_profiles
InputSizeOf(ip) == Get(ip, "size", 0)

\* an extraction that reads the input counts from the first inputProfile entry only
DetailedOperatorMetricsFirstInput(op, major_fragment_id, minor_fragment_id) ==
    LET operator_id == Get(op, "operatorId", 0)
        operator_type == Get(op, "operatorType", 0)
        setup_nanos == Get(op, "setupNanos", 0)
        process_nanos == Get(op, "processNanos", 0)
        wait_nanos == Get(op, "waitNanos", 0)
        input_profiles == Take(Get(op, "inputProfile", <<>>), 1)
    IN [operator_id |-> operator_id,
        operator_type |-> operator_type,
        operator_name |-> detailed_get_operator_type_name(operator_type),
        setup_nanos |-> setup_nanos,
        process_nanos |-> process_nanos,
        wait_nanos |-> wait_nanos,
        total_nanos |-> setup_nanos + process_nanos + wait_nanos,
        fragment_id |-> major_fragment_id,
        minor_fragment_id |-> minor_fragment_id,
        input_records |-> Sum(Map(input_profiles, InputRecordsOf)),
        output_records |-> Get(op, "outputRecords", 0),
        input_bytes |-> Sum(Map(input_profiles, InputSizeOf)),
        output_bytes |-> Get(op, "outputBytes", 0),
        peak_memory |-> Get(op, "peakLocalMemoryAllocated", 0),
        metrics |-> MetricsDict(Get(op, "metric", <<>>))]

\* the DetailedOperatorMetrics appended for one operator record (lines 129-173)
DetailedOperatorMetrics(op, major_fragment_id, minor_fragment_id) ==
    LET operator_id == Get(op, "operatorId", 0)
        operator_type == Get(op, "operatorType", 0)
        setup_nanos == Get(op, "setupNanos", 0)
        process_nanos == Get(op, "processNanos", 0)
        wait_nanos == Get(op, "waitNanos", 0)
        input_profiles == Get(op, "inputProfile", <<>>)
    IN [operator_id |-> operator_id,
        operator_type |-> operator_type,
        operator_name |-> detailed_get_operator_type_name(operator_type),
        setup_nanos |-> setup_nanos,
        process_nanos |-> process_nanos,
        wait_nanos |-> wait_nanos,
        total_nanos |-> setup_nanos + process_nanos + wait_nanos,
        fragment_id |-> major_fragment_id,
        minor_fragment_id |-> minor_fragment_id,
        input_records |-> Sum(Map(input_profiles, InputRecordsOf)),
        output_records |-> Get(op, "outputRecords", 0),
        input_bytes |-> Sum(Map(input_profiles, InputSizeOf)),
        output_bytes |-> Get(op, "outputBytes", 0),
        peak_memory |-> Get(op, "peakLocalMemoryAllocated", 0),
        metrics |-> MetricsDict(Get(op, "metric", <<>>))]

\* the records appended while iterating one minor fragment (lines 125-173)
MinorFragmentMetrics(minor_fragment, major_fragment_id) ==
    LET minor_fragment_id == Get(minor_fragment, "minorFragmentId", 0)
        operator_profiles == Get(minor_fragment, "operatorProfile", <<>>)
        Row(op) == DetailedOperatorMetrics(op, major_fragment_id, minor_fragment_id)
    IN Map(operator_profiles, Row)

\* the records appended while iterating one fragment (lines 121-173)
FragmentMetrics(fragment) ==
    LET major_fragment_id == Get(fragment, "majorFragmentId", 0)
        minor_fragments == Get(fragment, "minorFragmentProfile", <<>>)
        Rows(minor_fragment) == MinorFragmentMetrics(minor_fragment, major_fragment_id)
    IN Concat(Map(minor_fragments, Rows))

extract_detailed_metrics(doc) ==
    LET fragment_profiles == Get(doc, "fragmentProfile", <<>>)
    IN Concat(Map(fragment_profiles, FragmentMetrics))

-----------------------------------------------------------------------------
(* Derived values.  A float quotient a/b is kept as the exact fraction, so    *)
(* that two computations can be compared without rounding.                 *)

\* the float a / b, for b # 0
Quot(a, b) == [num |-> a, den |-> b]

\* an integer key as a sort key
IntKey(n) == Quot(n, 1)

\* a <= b on sort keys with positive denominators
KeyLeq(a, b) == a.num * b.den <= b.num * a.den

\* int(total / count) for total >= 0, count > 0
IntAvg(total, count) == total \div count

RECURSIVE Max(_)
\* max(xs) over a non-empty list of integers
Max(xs) ==
    IF Len(xs) = 1 THEN Head(xs)
    ELSE LET m == Max(Tail(xs)) IN IF Head(xs) >= m THEN Head(xs) ELSE m

-----------------------------------------------------------------------------
(* sorted(xs, key=..., reverse=...) : list.sort is stable; with reverse=True  *)
(* CPython reverses the list, sorts it ascending and stable, and reverses    *)
(* the result, which keeps equal keys in their original order.               *)

RECURSIVE UnstableAscending(_)
\* an ascending sort that puts a key in front of the equal keys before it
UnstableAscending(keys) ==
    IF keys = <<>> THEN <<>>
    ELSE LET n == Len(keys)
             before == UnstableAscending(SubSeq(keys, 1, n - 1))
             pos == Cardinality({i \in 1..(n - 1) :
                        ~KeyLeq(keys[n], keys[before[i]])})
         IN SubSeq(before, 1, pos) \o <<n>> \o SubSeq(before, pos + 1, n - 1)

RECURSIVE StableAscending(_)
\* the indices of keys in ascending key order, equal keys in index order
StableAscending(keys) ==
    IF keys = <<>> THEN <<>>
    ELSE LET n == Len(keys)
             before == StableAscending(SubSeq(keys, 1, n - 1))
             pos == Cardinality({i \in 1..(n - 1) : KeyLeq(keys[before[i]], keys[n])})
         IN SubSeq(before, 1, pos) \o <<n>> \o SubSeq(before, pos + 1, n - 1)

\* sorted(xs, key=Key)
sorted(xs, Key(_)) ==
    LET order == StableAscending(Map(xs, Key))
    IN [i \in 1..Len(xs) |-> xs[order[i]]]

\* sorted(xs, key=Key, reverse=True)
sorted_reverse(xs, Key(_)) == Reverse(sorted(Reverse(xs), Key))

\* max(xs, key=Key) for a non-empty list: the first element with the largest key
max_by(xs, Key(_)) ==
    LET best == CHOOSE i \in 1..Len(xs) :
                    /\ \A j \in 1..Len(xs) : Key(xs[j]) <= Key(xs[i])
                    /\ \A j \in 1..(i - 1) : Key(xs[j]) < Key(xs[i])
    IN xs[best]

\* key=lambda x: x.total_nanos
TotalNanosKey(op) == IntKey(op.total_nanos)

\* key=lambda x: x.duration_millis
DurationKey(phase) == IntKey(phase.duration_millis)

\* top_n of main(): the default used when no second argument is given
default_top_n(s) == IF s = "analyze_profile" THEN 10 ELSE 5

-----------------------------------------------------------------------------
(* analyze_profile.py: the report functions *)

\* the values print_summary_stats prints
print_summary_stats(doc, ops, phs) ==
    LET query ==
            [total_query_time |-> Get(doc, "end", 0) - Get(doc, "start", 0),
             planning_time |-> Get(doc, "planningEnd", 0) - Get(doc, "planningStart", 0)]
        totals == [i \in 1..Len(ops) |-> ops[i].total_nanos]
        operator_stats ==
            IF ops # <<>>
            THEN [total_operator_time |-> Sum(totals),
                  max_operator_time |-> Max(totals),
                  avg_operator_time |-> IntAvg(Sum(totals), Len(ops)),
                  number_of_operators |-> Len(ops)]
            ELSE EmptyDict
        durations == [i \in 1..Len(phs) |-> phs[i].duration_millis]
        phase_stats ==
            IF phs # <<>>
            THEN [total_phase_time |-> Sum(durations),
                  max_phase_time |-> Max(durations),
                  number_of_phases |-> Len(phs)]
            ELSE EmptyDict
    IN query @@ operator_stats @@ phase_stats

\* an average taken without looking at whether there are operators
print_summary_stats_divisors_unguarded(ops) == {Len(ops)}

\* the divisors print_summary_stats divides by
print_summary_stats_divisors(ops) == IF ops # <<>> THEN {Len(ops)} ELSE {}

RECURSIVE FirstSeen(_)
\* the keys of type_counts in insertion order: each operator_name once, first-seen first
FirstSeen(names) ==
    IF names = <<>> THEN <<>>
    ELSE LET n == Len(names)
             before == FirstSeen(SubSeq(names, 1, n - 1))
         IN IF \E i \in 1..Len(before) : before[i] = names[n]
            THEN before ELSE Append(before, names[n])

\* the rows print_operator_type_distribution prints
print_operator_type_distribution(ops) ==
    LET names == FirstSeen([i \in 1..Len(ops) |-> ops[i].operator_name])
        Count(name) == Cardinality({i \in 1..Len(ops) : ops[i].operator_name = name})
        Time(name) ==
            Sum([i \in 1..Len(ops) |->
                    IF ops[i].operator_name = name THEN ops[i].total_nanos ELSE 0])
        Entry(name) == [op_name |-> name, total_time |-> Time(name)]
        TimeKey(item) == IntKey(item.total_time)
        sorted_types == sorted_reverse(Map(names, Entry), TimeKey)
        Row(item) ==
            [op_name |-> item.op_name,
             count |-> Count(item.op_name),
             total_time |-> item.total_time,
             avg_time |-> IntAvg(item.total_time, Count(item.op_name))]
    IN Map(sorted_types, Row)

\* the divisors print_operator_type_distribution divides by
print_operator_type_distribution_divisors(ops) ==
    {Cardinality({i \in 1..Len(ops) : ops[i].operator_name = ops[j].operator_name})
        : j \in 1..Len(ops)}

\* sorted_operators of print_top_operators and print_detailed_operator_breakdown
sort_operators(ops) == sorted_reverse(ops, TotalNanosKey)

\* sorted_phases of print_top_phases
sort_phases(phs) == sorted_reverse(phs, DurationKey)

\* a choice of the longest items that takes the last of several maximal records
longest_items_last_of_ties(ops, phs) ==
    (IF ops # <<>>
     THEN [longest_operator |-> max_by(Reverse(ops), LAMBDA x : x.total_nanos)]
     ELSE EmptyDict)
    @@ (IF phs # <<>>
        THEN [longest_phase |-> max_by(Reverse(phs), LAMBDA x : x.duration_millis)]
        ELSE EmptyDict)

\* the LONGEST RUNNING OPERATOR / PHASE lines of analyze_profile_file
longest_items(ops, phs) ==
    (IF ops # <<>> THEN [longest_operator |-> max_by(ops, LAMBDA x : x.total_nanos)]
                   ELSE EmptyDict)
    @@ (IF phs # <<>> THEN [longest_phase |-> max_by(phs, LAMBDA x : x.duration_millis)]
                      ELSE EmptyDict)

-----------------------------------------------------------------------------
(* detailed_profile_analysis.py: analyze_bottlenecks *)

\* a wait-time test whose comparisons admit equality
IsHighWaitNonStrict(op) == op.wait_nanos >= op.process_nanos /\ op.wait_nanos >= 1000000

\* op.wait_nanos > op.process_nanos and op.wait_nanos > 1_000_000   (line 216)
IsHighWait(op) == op.wait_nanos > op.process_nanos /\ op.wait_nanos > 1000000

\* a memory test that admits exactly 1,000,000 bytes
IsHighMemoryNonStrict(op) == op.peak_memory >= 1000000

\* op.peak_memory > 1_000_000   (line 224)
IsHighMemory(op) == op.peak_memory > 1000000

\* op.input_records > 1_000_000   (line 231)
IsHighRecord(op) == op.input_records > 1000000

\* a selectivity test that admits exactly 1%
IsPoorSelectivityNonStrict(op) ==
    /\ op.input_records > 1000 /\ op.output_records > 0
    /\ 100 * op.output_records <= op.input_records

\* op.input_records > 1000 and op.output_records > 0, then
\* selectivity = op.output_records / op.input_records; selectivity < 0.01   (lines 242-244)
IsPoorSelectivity(op) ==
    /\ op.input_records > 1000 /\ op.output_records > 0
    /\ 100 * op.output_records < op.input_records

\* the HIGH WAIT TIME rows, in printed order (lines 216-221)
HighWaitRows(ops) ==
    LET Row(op) ==
            [op |-> op,
             wait_pct |-> IF op.total_nanos > 0 THEN Quot(op.wait_nanos, op.total_nanos)
                                                ELSE Quot(0, 1)]
    IN Map(sorted_reverse(Filter(ops, IsHighWait), LAMBDA x : IntKey(x.wait_nanos)), Row)

\* the HIGH MEMORY USAGE rows, in printed order (lines 224-228)
HighMemoryRows(ops) ==
    sorted_reverse(Filter(ops, IsHighMemory), LAMBDA x : IntKey(x.peak_memory))

\* a high-volume list whose throughput is taken over the total time
HighRecordRowsOverTotalTime(ops) ==
    LET Row(op) ==
            [op |-> op,
             throughput |-> IF op.total_nanos > 0
                            THEN Quot(op.input_records, op.total_nanos)
                            ELSE Quot(0, 1)]
    IN Map(sorted_reverse(Filter(ops, IsHighRecord), LAMBDA x : IntKey(x.input_records)), Row)

\* the HIGH RECORD VOLUME rows, in printed order (lines 231-237);
\* throughput is input_records / (process_nanos / 1e9), kept as records per nanosecond
HighRecordRows(ops) ==
    LET Row(op) ==
            [op |-> op,
             throughput |-> IF op.process_nanos > 0
                            THEN Quot(op.input_records, op.process_nanos)
                            ELSE Quot(0, 1)]
    IN Map(sorted_reverse(Filter(ops, IsHighRecord), LAMBDA x : IntKey(x.input_records)), Row)

\* the LOW SELECTIVITY rows, in printed order (lines 240-251)
PoorSelectivityRows(ops) ==
    LET Row(op) == [op |-> op, selectivity |-> Quot(op.output_records, op.input_records)]
    IN sorted(Map(Filter(ops, IsPoorSelectivity), Row), LAMBDA x : x.selectivity)

\* the divisors analyze_bottlenecks divides by
analyze_bottlenecks_divisors(ops) ==
    LET Of(P(_), D(_)) == {D(ops[i]) : i \in {j \in 1..Len(ops) : P(ops[j])}}
    IN Of(LAMBDA x : IsHighWait(x) /\ x.total_nanos > 0, LAMBDA x : x.total_nanos)
       \cup Of(LAMBDA x : IsHighRecord(x) /\ x.process_nanos > 0, LAMBDA x : x.process_nanos)
       \cup Of(LAMBDA x : x.input_records > 1000 /\ x.output_records > 0,
               LAMBDA x : x.input_records)

-----------------------------------------------------------------------------
(* detailed_profile_analysis.py: print_detailed_operator_breakdown *)

\* a breakdown whose processing rate is computed whenever there are input records
BreakdownRowRateUnguarded(op) ==
    [op |-> op]
    @@ (IF op.total_nanos > 0
        THEN [setup_pct |-> Quot(op.setup_nanos, op.total_nanos),
              process_pct |-> Quot(op.process_nanos, op.total_nanos),
              wait_pct |-> Quot(op.wait_nanos, op.total_nanos)]
        ELSE EmptyDict)
    @@ (IF op.peak_memory > 0 THEN [peak_memory |-> op.peak_memory] ELSE EmptyDict)
    @@ (IF op.input_records > 0
        THEN [records_per_sec |-> Quot(op.input_records, op.process_nanos)]
        ELSE EmptyDict)
    @@ (IF op.input_records > 0 /\ op.output_records > 0
        THEN [selectivity |-> Quot(op.output_records, op.input_records)]
        ELSE EmptyDict)

\* what is printed for one of the top operators (lines 261-283)
BreakdownRow(op) ==
    [op |-> op]
    @@ (IF op.total_nanos > 0
        THEN [setup_pct |-> Quot(op.setup_nanos, op.total_nanos),
              process_pct |-> Quot(op.process_nanos, op.total_nanos),
              wait_pct |-> Quot(op.wait_nanos, op.total_nanos)]
        ELSE EmptyDict)
    @@ (IF op.peak_memory > 0 THEN [peak_memory |-> op.peak_memory] ELSE EmptyDict)
    @@ (IF op.input_records > 0 /\ op.process_nanos > 0
        THEN [records_per_sec |-> Quot(op.input_records, op.process_nanos)]
        ELSE EmptyDict)
    @@ (IF op.input_records > 0 /\ op.output_records > 0
        THEN [selectivity |-> Quot(op.output_records, op.input_records)]
        ELSE EmptyDict)

\* the rows print_detailed_operator_breakdown prints
print_detailed_operator_breakdown(ops, top_n) ==
    Map(Take(sort_operators(ops), top_n), BreakdownRow)

\* the divisors print_detailed_operator_breakdown divides by
print_detailed_operator_breakdown_divisors(ops, top_n) ==
    LET top == Take(sort_operators(ops), top_n)
        Of(P(_), D(_)) == {D(top[i]) : i \in {j \in 1..Len(top) : P(top[j])}}
    IN Of(LAMBDA x : x.total_nanos > 0, LAMBDA x : x.total_nanos)
       \cup Of(LAMBDA x : x.input_records > 0 /\ x.process_nanos > 0,
               LAMBDA x : x.process_nanos)
       \cup Of(LAMBDA x : x.input_records > 0 /\ x.output_records > 0,
               LAMBDA x : x.input_records)

-----------------------------------------------------------------------------
(* detailed_profile_analysis.py: print_performance_recommendations *)

\* op.wait_nanos > op.process_nanos * 2 and op.wait_nanos > 10_000_000   (line 293)
RecHighWait(op) == op.wait_nanos > op.process_nanos * 2 /\ op.wait_nanos > 10000000

\* op.peak_memory > 100_000_000   (line 298)
RecHighMemory(op) == op.peak_memory > 100000000

\* op.operator_name == "Filter" and op.input_records > 1000 and op.output_records > 0,
\* then selectivity = op.output_records / op.input_records; selectivity > 0.8  (lines 305-307)
RecLowSelectivity(op) ==
    /\ op.operator_name = "Filter" /\ op.input_records > 1000 /\ op.output_records > 0
    /\ 5 * op.output_records > 4 * op.input_records

\* a join test that admits exactly one second
RecExpensiveJoinNonStrict(op) ==
    Contains(op.operator_name, "Join") /\ op.total_nanos >= 1000000000

\* "Join" in op.operator_name and op.total_nanos > 1_000_000_000   (line 314)
RecExpensiveJoin(op) == Contains(op.operator_name, "Join") /\ op.total_nanos > 1000000000

\* "Sort" in op.operator_name and op.peak_memory > 50_000_000   (line 319)
RecExpensiveSort(op) == Contains(op.operator_name, "Sort") /\ op.peak_memory > 50000000

HighWaitText == "High wait times detected - investigate I/O bottlenecks or resource contention"
HighMemoryText == "High memory usage detected - consider increasing executor memory or optimizing data structures"
LowSelectivityText == "Low-selectivity filters detected - consider pushdown optimizations or query restructuring"
ExpensiveJoinText == "Expensive joins detected - consider join reordering, indexing, or partitioning strategies"
ExpensiveSortText == "Memory-intensive sorts detected - consider adding LIMIT clauses or pre-sorting data"
NoIssuesText == "No major performance issues detected in this query profile"
NoOperatorDataText == "No operator data found in profile"

\* a recommendations list that leaves out the check for large sorts
build_recommendations_without_sorts(ops) ==
    LET When(P(_), text) == IF Filter(ops, P) # <<>> THEN <<text>> ELSE <<>>
    IN When(RecHighWait, HighWaitText)
       \o When(RecHighMemory, HighMemoryText)
       \o When(RecLowSelectivity, LowSelectivityText)
       \o When(RecExpensiveJoin, ExpensiveJoinText)

\* the recommendations list built by print_performance_recommendations (lines 290-321)
build_recommendations(ops) ==
    LET When(P(_), text) == IF Filter(ops, P) # <<>> THEN <<text>> ELSE <<>>
    IN When(RecHighWait, HighWaitText)
       \o When(RecHighMemory, HighMemoryText)
       \o When(RecLowSelectivity, LowSelectivityText)
       \o When(RecExpensiveJoin, ExpensiveJoinText)
       \o When(RecExpensiveSort, ExpensiveSortText)

\* what print_performance_recommendations prints after the header (lines 323-327)
recommendation_lines(recs) == IF recs # <<>> THEN recs ELSE <<NoIssuesText>>

\* the divisors print_performance_recommendations divides by
print_performance_recommendations_divisors(ops) ==
    {ops[i].input_records : i \in {j \in 1..Len(ops) :
        /\ ops[j].operator_name = "Filter"
        /\ ops[j].input_records > 1000 /\ ops[j].output_records > 0}}

-----------------------------------------------------------------------------
(* detailed_profile_analysis.py: OVERALL STATISTICS of analyze_detailed_profile *)

\* the values printed under OVERALL STATISTICS (lines 353-367);
\* overall_throughput is total_records / (total_time / 1e9), kept as records per nanosecond
overall_statistics(ops) ==
    LET total_time == Sum([i \in 1..Len(ops) |-> ops[i].total_nanos])
        total_memory == Sum([i \in 1..Len(ops) |-> ops[i].peak_memory])
        total_records == Sum([i \in 1..Len(ops) |-> ops[i].input_records])
    IN [total_operators |-> Len(ops),
        total_time |-> total_time,
        total_memory |-> total_memory,
        total_records |-> total_records]
       @@ (IF total_time > 0
           THEN [overall_throughput |-> Quot(total_records, total_time)]
           ELSE EmptyDict)

\* the divisors the OVERALL STATISTICS block divides by
overall_statistics_divisors(ops) ==
    LET total_time == Sum([i \in 1..Len(ops) |-> ops[i].total_nanos])
    IN IF total_time > 0 THEN {total_time} ELSE {}

-----------------------------------------------------------------------------
(* The two programs.  Each step of a main function is one action. *)

Scripts == {"analyze_profile", "detailed_profile_analysis"}

\* the state once json.load has returned doc in script s
Loaded(docs, scripts) ==
    /\ profile_data \in docs
    /\ script \in scripts
    /\ pc = "extract"
    /\ operators = <<>>
    /\ phases = <<>>
    /\ summary = EmptyDict
    /\ type_distribution = <<>>
    /\ sorted_operators = <<>>
    /\ sorted_phases = <<>>
    /\ longest = EmptyDict
    /\ high_wait_ops = <<>>
    /\ high_memory_ops = <<>>
    /\ high_record_ops = <<>>
    /\ poor_selectivity_ops = <<>>
    /\ recommendations = <<>>
    /\ top_operators = <<>>
    /\ top_phases = <<>>
    /\ zero_division = FALSE
    /\ stdout = <<>>

\* analyze_profile_file: operators = analyze_operators(profile_data)
AnalyzeOperators ==
    /\ script = "analyze_profile" /\ pc = "extract"
    /\ operators' = analyze_operators(profile_data)
    /\ pc' = "phases"
    /\ UNCHANGED <<profile_data, script, phases, summary, type_distribution,
                   sorted_operators, sorted_phases, longest, high_wait_ops,
                   high_memory_ops, high_record_ops, poor_selectivity_ops,
                   recommendations, top_operators, top_phases, zero_division, stdout>>

\* analyze_profile_file: phases = analyze_phases(profile_data)
AnalyzePhases ==
    /\ script = "analyze_profile" /\ pc = "phases"
    /\ phases' = analyze_phases(profile_data)
    /\ pc' = "summary"
    /\ UNCHANGED <<profile_data, script, operators, summary, type_distribution,
                   sorted_operators, sorted_phases, longest, high_wait_ops,
                   high_memory_ops, high_record_ops, poor_selectivity_ops,
                   recommendations, top_operators, top_phases, zero_division, stdout>>

\* analyze_profile_file: print_summary_stats(profile_data, operators, phases)
PrintSummaryStats ==
    /\ script = "analyze_profile" /\ pc = "summary"
    /\ summary' = print_summary_stats(profile_data, operators, phases)
    /\ zero_division' = (zero_division \/ 0 \in print_summary_stats_divisors(operators))
    /\ pc' = "distribution"
    /\ UNCHANGED <<profile_data, script, operators, phases, type_distribution,
                   sorted_operators, sorted_phases, longest, high_wait_ops,
                   high_memory_ops, high_record_ops, poor_selectivity_ops,
                   recommendations, top_operators, top_phases, stdout>>

\* analyze_profile_file: print_operator_type_distribution(operators)
PrintOperatorTypeDistribution ==
    /\ script = "analyze_profile" /\ pc = "distribution"
    /\ type_distribution' = print_operator_type_distribution(operators)
    /\ zero_division' =
          (zero_division \/ 0 \in print_operator_type_distribution_divisors(operators))
    /\ pc' = "top_operators"
    /\ UNCHANGED <<profile_data, script, operators, phases, summary,
                   sorted_operators, sorted_phases, longest, high_wait_ops,
                   high_memory_ops, high_record_ops, poor_selectivity_ops,
                   recommendations, top_operators, top_phases, stdout>>

\* analyze_profile_file: print_top_operators(operators, top_n)
PrintTopOperators ==
    /\ script = "analyze_profile" /\ pc = "top_operators"
    /\ sorted_operators' = sort_operators(operators)
    /\ top_operators' = Take(sort_operators(operators), default_top_n(script))
    /\ pc' = "top_phases"
    /\ UNCHANGED <<profile_data, script, operators, phases, summary, type_distribution,
                   sorted_phases, longest, high_wait_ops, high_memory_ops,
                   high_record_ops, poor_selectivity_ops, recommendations,
                   top_phases, zero_division, stdout>>

\* analyze_profile_file: print_top_phases(phases, top_n)
PrintTopPhases ==
    /\ script = "analyze_profile" /\ pc = "top_phases"
    /\ sorted_phases' = sort_phases(phases)
    /\ top_phases' = Take(sort_phases(phases), default_top_n(script))
    /\ pc' = "longest"
    /\ UNCHANGED <<profile_data, script, operators, phases, summary, type_distribution,
                   sorted_operators, longest, high_wait_ops, high_memory_ops,
                   high_record_ops, poor_selectivity_ops, recommendations,
                   top_operators, zero_division, stdout>>

\* analyze_profile_file: the single longest running operator and phase
LongestItems ==
    /\ script = "analyze_profile" /\ pc = "longest"
    /\ longest' = longest_items(operators, phases)
    /\ pc' = "done"
    /\ UNCHANGED <<profile_data, script, operators, phases, summary, type_distribution,
                   sorted_operators, sorted_phases, high_wait_ops, high_memory_ops,
                   high_record_ops, poor_selectivity_ops, recommendations,
                   top_operators, top_phases, zero_division, stdout>>

\* analyze_detailed_profile: operators = extract_detailed_metrics(profile_data)
ExtractDetailedMetrics ==
    /\ script = "detailed_profile_analysis" /\ pc = "extract"
    /\ operators' = extract_detailed_metrics(profile_data)
    /\ pc' = "extracted"
    /\ UNCHANGED <<profile_data, script, phases, summary, type_distribution,
                   sorted_operators, sorted_phases, longest, high_wait_ops,
                   high_memory_ops, high_record_ops, poor_selectivity_ops,
                   recommendations, top_operators, top_phases, zero_division, stdout>>

\* analyze_detailed_profile: if not operators: print(...); return
NoOperatorData ==
    /\ script = "detailed_profile_analysis" /\ pc = "extracted"
    /\ operators = <<>>
    /\ stdout' = Append(stdout, NoOperatorDataText)
    /\ pc' = "done"
    /\ UNCHANGED <<profile_data, script, operators, phases, summary, type_distribution,
                   sorted_operators, sorted_phases, longest, high_wait_ops,
                   high_memory_ops, high_record_ops, poor_selectivity_ops,
                   recommendations, top_operators, top_phases, zero_division>>

\* analyze_detailed_profile: analyze_bottlenecks(operators)
AnalyzeBottlenecks ==
    /\ script = "detailed_profile_analysis" /\ pc = "extracted"
    /\ operators # <<>>
    /\ high_wait_ops' = HighWaitRows(operators)
    /\ high_memory_ops' = HighMemoryRows(operators)
    /\ high_record_ops' = HighRecordRows(operators)
    /\ poor_selectivity_ops' = PoorSelectivityRows(operators)
    /\ zero_division' = (zero_division \/ 0 \in analyze_bottlenecks_divisors(operators))
    /\ pc' = "breakdown"
    /\ UNCHANGED <<profile_data, script, operators, phases, summary, type_distribution,
                   sorted_operators, sorted_phases, longest, recommendations,
                   top_operators, top_phases, stdout>>

\* analyze_detailed_profile: print_detailed_operator_breakdown(operators, top_n)
PrintDetailedOperatorBreakdown ==
    /\ script = "detailed_profile_analysis" /\ pc = "breakdown"
    /\ sorted_operators' = sort_operators(operators)
    /\ top_operators' = print_detailed_operator_breakdown(operators, default_top_n(script))
    /\ zero_division' =
          (zero_division
           \/ 0 \in print_detailed_operator_breakdown_divisors(operators, default_top_n(script)))
    /\ pc' = "recommend"
    /\ UNCHANGED <<profile_data, script, operators, phases, summary, type_distribution,
                   sorted_phases, longest, high_wait_ops, high_memory_ops,
                   high_record_ops, poor_selectivity_ops, recommendations,
                   top_phases, stdout>>

\* analyze_detailed_profile: print_performance_recommendations(operators)
PrintPerformanceRecommendations ==
    /\ script = "detailed_profile_analysis" /\ pc = "recommend"
    /\ recommendations' = build_recommendations(operators)
    /\ stdout' = stdout \o recommendation_lines(build_recommendations(operators))
    /\ zero_division' =
          (zero_division \/ 0 \in print_performance_recommendations_divisors(operators))
    /\ pc' = "overall"
    /\ UNCHANGED <<profile_data, script, operators, phases, summary, type_distribution,
                   sorted_operators, sorted_phases, longest, high_wait_ops,
                   high_memory_ops, high_record_ops, poor_selectivity_ops,
                   top_operators, top_phases>>

\* analyze_detailed_profile: the OVERALL STATISTICS block
OverallStatistics ==
    /\ script = "detailed_profile_analysis" /\ pc = "overall"
    /\ summary' = overall_statistics(operators)
    /\ zero_division' = (zero_division \/ 0 \in overall_statistics_divisors(operators))
    /\ pc' = "done"
    /\ UNCHANGED <<profile_data, script, operators, phases, type_distribution,
                   sorted_operators, sorted_phases, longest, high_wait_ops,
                   high_memory_ops, high_record_ops, poor_selectivity_ops,
                   recommendations, top_operators, top_phases, stdout>>

\* analyze_profile_file
NextProfile ==
    \/ AnalyzeOperators
    \/ AnalyzePhases
    \/ PrintSummaryStats
    \/ PrintOperatorTypeDistribution
    \/ PrintTopOperators
    \/ PrintTopPhases
    \/ LongestItems

\* analyze_detailed_profile
NextDetailed ==
    \/ ExtractDetailedMetrics
    \/ NoOperatorData
    \/ AnalyzeBottlenecks
    \/ PrintDetailedOperatorBreakdown
    \/ PrintPerformanceRecommendations
    \/ OverallStatistics

Next == NextProfile \/ NextDetailed

-----------------------------------------------------------------------------
(* Profile documents the programs are run on *)

\* the dicts {key: v} for v in values, and the dict without the key
Opt(key, values) == {EmptyDict} \cup {key :> v : v \in values}

\* rec with the keys of absent removed
Without(rec, absent) == [k \in DOMAIN rec \ absent |-> rec[k]]

\* all lists of length 0..n over the set S
SeqsUpTo(S, n) == UNION {[1..k -> S] : k \in 0..n}

MaxFragments == 2
MaxMinorFragments == 2
MaxOperators == 2
MaxInputProfiles == 2
MaxPhases == 3
MaxRankOperators == 3
MaxClassifyOperators == 2
MaxUnknownCodes == 20
MaxRunPhases == 2
MaxDerivedOperators == 2

OperatorKeys ==
    {"operatorId", "operatorType", "setupNanos", "processNanos", "waitNanos",
     "inputProfile", "outputRecords", "outputBytes", "peakLocalMemoryAllocated", "metric"}

\* which keys the odd-numbered records of a document leave out
AbsentSets ==
    {{}, {"setupNanos"}, {"processNanos", "waitNanos"}, {"operatorId", "operatorType"},
     {"majorFragmentId", "minorFragmentId"},
     {"inputProfile", "outputRecords", "outputBytes", "peakLocalMemoryAllocated", "metric"},
     OperatorKeys \cup {"majorFragmentId", "minorFragmentId"}}

Odd(n) == n % 2 = 1

\* operator l of minor fragment j of fragment i
StructOperator(i, j, l, absent) ==
    Without([operatorId |-> l,
             operatorType |-> l + 1,
             totalNanos |-> 77,
             setupNanos |-> 100 * i + 10 * j + l,
             processNanos |-> 1000 * l,
             waitNanos |-> 5 * j,
             inputProfile |-> <<[records |-> 40 * l, size |-> 8 * l], [records |-> 2]>>,
             outputRecords |-> 30 + l,
             outputBytes |-> 6 * l,
             peakLocalMemoryAllocated |-> 4096 * l,
             metric |-> <<[metricId |-> 1, longValue |-> 5],
                          [metricId |-> 2, doubleValue |-> 3],
                          [metricId |-> 3],
                          [longValue |-> 9],
                          [metricId |-> 1, longValue |-> 6, doubleValue |-> 7]>>],
            IF Odd(l) THEN absent ELSE {})

\* minor fragment j of fragment i: no operators where i + j is even, otherwise
\* no - 2 (i odd) or no - 1 (i even), a negative count standing for a minor
\* fragment without operatorProfile
StructMinorFragment(i, j, no, absent) ==
    LET count == IF (i + j) % 2 = 0 THEN no ELSE IF Odd(i) THEN no - 2 ELSE no - 1
    IN Without([minorFragmentId |-> j], IF Odd(j) THEN absent ELSE {})
       @@ (IF count >= 0
           THEN [operatorProfile |-> [l \in 1..count |-> StructOperator(i, j, l, absent)]]
           ELSE EmptyDict)

\* fragment i with nm minor fragments, -1 standing for no minorFragmentProfile
StructFragment(i, nm, no, absent) ==
    Without([majorFragmentId |-> i], IF Odd(i) THEN absent ELSE {})
    @@ (IF nm >= 0
        THEN [minorFragmentProfile |->
                 [j \in 1..nm |-> StructMinorFragment(i, j, no, absent)]]
        ELSE EmptyDict)

\* a planPhases list with a complete record and records lacking either field or both
SomePhases ==
    <<[phaseName |-> "Parser", durationMillis |-> 50], [durationMillis |-> 200],
      [phaseName |-> "Planning"], EmptyDict>>

\* documents of every shape: any number of fragments, each with any number of minors
StructDocs ==
    {EmptyDict} \cup
    {[fragmentProfile |-> [i \in 1..Len(nms) |-> StructFragment(i, nms[i], no, absent)],
      planPhases |-> SomePhases] :
        nms \in SeqsUpTo(-1..MaxMinorFragments, MaxFragments),
        no \in 0..MaxOperators,
        absent \in AbsentSets}

\* a document holding the single operator op
OneOperatorDoc(op) ==
    [fragmentProfile |-> <<[majorFragmentId |-> 0,
                            minorFragmentProfile |-> <<[minorFragmentId |-> 0,
                                                        operatorProfile |-> <<op>>]>>]>>]

\* a planPhases list whose durations tie
TiedPhases ==
    <<[phaseName |-> "Parser", durationMillis |-> 50],
      [phaseName |-> "Planning", durationMillis |-> 200],
      [phaseName |-> "Validation", durationMillis |-> 50],
      [phaseName |-> "Execution", durationMillis |-> 200]>>

\* a document holding the operators ops in one minor fragment
OperatorsDoc(ops) ==
    [fragmentProfile |-> <<[majorFragmentId |-> 0,
                            minorFragmentProfile |-> <<[minorFragmentId |-> 0,
                                                        operatorProfile |-> ops]>>]>>]

InputProfileEntries ==
    {EmptyDict, [records |-> 3], [size |-> 7], [records |-> 3, size |-> 7],
     [records |-> 11, size |-> 13]}

\* one operator, with every inputProfile list and with or without its own output fields
IODocs ==
    {OneOperatorDoc([operatorId |-> 1] @@ inp @@ out) :
        inp \in {EmptyDict} \cup
                {[inputProfile |-> ips] : ips \in SeqsUpTo(InputProfileEntries, MaxInputProfiles)},
        out \in {EmptyDict,
                 [outputRecords |-> 21, outputBytes |-> 22, peakLocalMemoryAllocated |-> 23]}}

PhaseRecords ==
    {name @@ duration : name \in Opt("phaseName", {"Parser", "Planning"}),
                        duration \in Opt("durationMillis", {50, 200})}

\* documents with every planPhases list and no fragment
PhaseDocs ==
    {EmptyDict} \cup {[planPhases |-> phs] : phs \in SeqsUpTo(PhaseRecords, MaxPhases)}

\* operators whose totals tie in several ways: 0, 4, 4, 8, 9, 13
RankOperators(l) ==
    {[operatorId |-> l] @@ setup @@ process :
        setup \in Opt("setupNanos", {4}), process \in Opt("processNanos", {4, 9})}

RankDocs ==
    {OperatorsDoc(ops) @@ [planPhases |-> TiedPhases] :
        ops \in UNION {{s \in [1..n -> UNION {RankOperators(l) : l \in 1..n}] :
                            \A l \in 1..n : s[l] \in RankOperators(l)}
                       : n \in 0..MaxRankOperators}}

\* one operator of every type code, known and unknown
CatalogDocs ==
    {EmptyDict} \cup
    {OneOperatorDoc([operatorId |-> 1, operatorType |-> code]) :
        code \in (0 - MaxUnknownCodes)..(68 + MaxUnknownCodes)}

\* operators around the wait-time thresholds
WaitOperators ==
    {[operatorId |-> 1, waitNanos |-> w] @@ process :
        w \in {1000000, 1000001, 10000000, 10000002},
        process \in Opt("processNanos", {1000001, 5000001})}

\* operators around the memory thresholds
MemoryOperators ==
    {[operatorId |-> 2, peakLocalMemoryAllocated |-> m] :
        m \in {1000000, 1000001, 50000000, 50000001, 100000000, 100000001}}
    \cup {[operatorId |-> 2, operatorType |-> 17, peakLocalMemoryAllocated |-> m] :
        m \in {50000000, 50000001}}

\* operators around the record-count and selectivity thresholds
IOOperators ==
    {[operatorId |-> 3, operatorType |-> 2, inputProfile |-> <<[records |-> inp]>>] @@ out :
        inp \in {1000, 1001, 2000, 1000000, 1000001},
        out \in Opt("outputRecords", {10, 20, 1600, 1601})}
    \cup {[operatorId |-> 3, operatorType |-> 10, inputProfile |-> <<[records |-> 2000]>>,
           outputRecords |-> 1601],
          [operatorId |-> 3, operatorType |-> 10, inputProfile |-> <<[records |-> 1001]>>,
           outputRecords |-> 10]}

\* operators around the join threshold
JoinOperators ==
    {[operatorId |-> 4, operatorType |-> t, setupNanos |-> 1, processNanos |-> 1000000000] :
        t \in {3, 4, 5, 35, 69}}
    \cup {[operatorId |-> 4, operatorType |-> 4, processNanos |-> 1000000000]}

ClassifyOperators ==
    {[operatorId |-> 0]} \cup WaitOperators \cup MemoryOperators \cup IOOperators
    \cup JoinOperators

\* the operators that accompany the operator under study in a longer list
Companions ==
    {[operatorId |-> 0],
     [operatorId |-> 1, waitNanos |-> 10000002],
     [operatorId |-> 2, operatorType |-> 17, peakLocalMemoryAllocated |-> 50000001],
     [operatorId |-> 3, operatorType |-> 2, inputProfile |-> <<[records |-> 1000001]>>,
      outputRecords |-> 10],
     [operatorId |-> 4, operatorType |-> 4, setupNanos |-> 1, processNanos |-> 1000000000]}

\* lists of n operators: any operator at one position, companions at the others,
\* with at most two one-second operators so that every sum stays below 2^31
ClassifyLists(n) ==
    {s \in {[i \in 1..n |-> IF i = k THEN op ELSE c[i]] :
                k \in 1..n, op \in ClassifyOperators, c \in [1..n -> Companions]} :
        Cardinality({i \in 1..n : Get(s[i], "processNanos", 0) >= 1000000000}) <= 2}

ClassifyDocs ==
    {EmptyDict} \cup
    {OperatorsDoc(ops) : ops \in UNION {ClassifyLists(n) : n \in 1..MaxClassifyOperators}}

\* operators with and without input records, output records and process time
DerivedOperators ==
    {[operatorId |-> 1, waitNanos |-> 7] @@ inp @@ out @@ process :
        inp \in {EmptyDict} \cup
                {[inputProfile |-> <<[records |-> n]>>] : n \in {500, 1000, 1001, 1000001}},
        out \in Opt("outputRecords", {4, 9, 600}),
        process \in Opt("processNanos", {2000})}

\* the operators that accompany the operator under study in a longer list
DerivedCompanions ==
    {[operatorId |-> 0],
     [operatorId |-> 2, waitNanos |-> 7, processNanos |-> 2000, outputRecords |-> 9,
      inputProfile |-> <<[records |-> 1000001]>>]}

\* lists of n operators: any operator at one position, companions at the others
DerivedLists(n) ==
    {[i \in 1..n |-> IF i = k THEN op ELSE c[i]] :
        k \in 1..n, op \in DerivedOperators, c \in [1..n -> DerivedCompanions]}

DerivedDocs ==
    {EmptyDict} \cup
    {OperatorsDoc(ops) : ops \in UNION {DerivedLists(n) : n \in 1..MaxDerivedOperators}}

-----------------------------------------------------------------------------
(* Specifications *)

\* both programs on documents of every shape
Init == Loaded(StructDocs \cup IODocs \cup PhaseDocs, Scripts)
Spec == Init /\ [][Next]_vars

\* both programs on one operator of every type code
InitCatalog == Loaded(CatalogDocs, Scripts)
SpecCatalog == InitCatalog /\ [][Next]_vars

\* both programs on documents whose operators and phases tie
InitRank == Loaded(RankDocs \cup PhaseDocs, Scripts)
SpecRank == InitRank /\ [][Next]_vars

\* doc declares no operator record in any minor fragment of any fragment
NoOperatorRecord(doc) ==
    LET fragments == Get(doc, "fragmentProfile", <<>>)
    IN \A i \in 1..Len(fragments) :
          LET minors == Get(fragments[i], "minorFragmentProfile", <<>>)
          IN \A j \in 1..Len(minors) : Get(minors[j], "operatorProfile", <<>>) = <<>>

\* doc with its planPhases list cut to n entries
ShortPhases(doc, n) ==
    IF "planPhases" \in DOMAIN doc
    THEN [doc EXCEPT !.planPhases = Take(doc.planPhases, n)]
    ELSE doc

\* the documents of every shape that hold no operator record, with at most
\* MaxRunPhases phases each
ZeroOperatorDocs ==
    {ShortPhases(doc, MaxRunPhases) :
        doc \in {d \in StructDocs \cup PhaseDocs : NoOperatorRecord(d)}}

\* both programs run to completion on documents without operators and on documents
\* with one operator: a main function is sequential code, so a step that can be
\* taken is taken
InitRun == Loaded(ZeroOperatorDocs \cup IODocs, Scripts)
SpecRun == InitRun /\ [][Next]_vars /\ WF_vars(Next)

\* both programs on operators around every threshold and on single operators, so
\* that every division of either program is reached with and without its guard
InitDivide == Loaded(ClassifyDocs \cup IODocs, Scripts)
SpecDivide == InitDivide /\ [][Next]_vars

\* the detailed analysis on operators around the conditions of the derived values
InitDerived == Loaded(DerivedDocs, {"detailed_profile_analysis"})
SpecDerived == InitDerived /\ [][NextDetailed]_vars

\* both programs on documents of every shape and on one operator of every type code
InitAgree == Loaded(StructDocs \cup CatalogDocs, Scripts)
SpecAgree == InitAgree /\ [][Next]_vars

\* the detailed analysis on operators around every threshold
InitClassify == Loaded(ClassifyDocs, {"detailed_profile_analysis"})
SpecClassify == InitClassify /\ [][NextDetailed]_vars

-----------------------------------------------------------------------------
(* Properties *)

\* the elements of a list
Range(xs) == {xs[i] : i \in 1..Len(xs)}

\* extraction has run
Extracted == pc # "extract"

\* analyze_phases has run
PhasesExtracted == script = "analyze_profile" /\ pc \notin {"extract", "phases"}

\* the document's fragments, minor fragments and operator records, by position
DocFragments == Get(profile_data, "fragmentProfile", <<>>)
DocMinors(i) == Get(DocFragments[i], "minorFragmentProfile", <<>>)
DocOperators(i, j) == Get(DocMinors(i)[j], "operatorProfile", <<>>)
DocPhases == Get(profile_data, "planPhases", <<>>)

\* the places <<fragment, minor fragment, operator>> of the document's operator records
Places ==
    UNION {UNION {{<<i, j, l>> : l \in 1..Len(DocOperators(i, j))}
                  : j \in 1..Len(DocMinors(i))}
           : i \in 1..Len(DocFragments)}

\* place u comes before place t in document order
Before(u, t) ==
    \/ u[1] < t[1]
    \/ u[1] = t[1] /\ u[2] < t[2]
    \/ u[1] = t[1] /\ u[2] = t[2] /\ u[3] < t[3]

\* the position in document order of the operator record at place t
PlaceIndex(t) == 1 + Cardinality({u \in Places : Before(u, t)})

\* the operator record at place t
DocOperator(t) == DocOperators(t[1], t[2])[t[3]]

\* C1: every extracted operator record has total_nanos equal to the sum of its own
\* setup_nanos, process_nanos and wait_nanos, which are the document's setupNanos,
\* processNanos and waitNanos with an absent field counted as 0; a totalNanos
\* declared by the document is never used.
C1_TotalIsSumOfParts ==
    Extracted =>
        /\ \A k \in 1..Len(operators) :
              operators[k].total_nanos =
                  operators[k].setup_nanos + operators[k].process_nanos
                  + operators[k].wait_nanos
        /\ Len(operators) = Cardinality(Places)
        /\ \A t \in Places :
              LET present == DOMAIN DocOperator(t)
                  Field(key) == IF key \in present THEN DocOperator(t)[key] ELSE 0
              IN operators[PlaceIndex(t)].total_nanos =
                     Field("setupNanos") + Field("processNanos") + Field("waitNanos")

\* C1 witness: an extracted record whose document entry declares a totalNanos, lacks
\* setupNanos and has a positive total
C1_Witness ==
    /\ pc = "done"
    /\ \E t \in Places :
          /\ "totalNanos" \in DOMAIN DocOperator(t)
          /\ "setupNanos" \notin DOMAIN DocOperator(t)
          /\ operators[PlaceIndex(t)].total_nanos > 0
          /\ operators[PlaceIndex(t)].total_nanos # DocOperator(t)["totalNanos"]

\* C2: the name extraction gives a record is the catalog's name for every type code
\* 0..68 (HashAggregate for 3, IcebergSubScan for 52) and "Unknown(<code>)" with the
\* exact code for every other integer, negative or above 68; a name is always given.
C2_CatalogTotal ==
    /\ DOMAIN operator_types = 0..68
    /\ Extracted =>
          /\ Len(operators) = Cardinality(Places)
          /\ \A t \in Places :
                LET code == DocOperator(t)["operatorType"]
                    name == operators[PlaceIndex(t)].operator_name
                IN /\ operators[PlaceIndex(t)].operator_type = code
                   /\ code \in 0..68 =>
                         /\ name = operator_types[code]
                         /\ ~Contains(name, "Unknown")
                   /\ code = 3 => name = "HashAggregate"
                   /\ code = 52 => name = "IcebergSubScan"
                   /\ code \notin 0..68 => name = "Unknown(" \o ToString(code) \o ")"
                   /\ code = 0 - 1 => name = "Unknown(-1)"
                   /\ code = 69 => name = "Unknown(69)"

\* C2 witness: a negative code has been given its Unknown name
C2_Witness ==
    /\ pc = "done"
    /\ \E k \in 1..Len(operators) :
          /\ operators[k].operator_type < 0
          /\ operators[k].operator_name = "Unknown(" \o ToString(operators[k].operator_type) \o ")"

\* C3: extraction yields one record per operator record of the document, in document
\* order (fragment, then minor fragment, then operator), each carrying the
\* majorFragmentId and minorFragmentId of the fragment and minor fragment around it.
C3_OneRecordPerOperatorInOrder ==
    Extracted =>
        /\ Len(operators) = Cardinality(Places)
        /\ \A t \in Places :
              LET r == operators[PlaceIndex(t)]
              IN /\ r.operator_id = Get(DocOperator(t), "operatorId", 0)
                 /\ r.operator_type = Get(DocOperator(t), "operatorType", 0)
                 /\ r.setup_nanos = Get(DocOperator(t), "setupNanos", 0)
                 /\ r.process_nanos = Get(DocOperator(t), "processNanos", 0)
                 /\ r.wait_nanos = Get(DocOperator(t), "waitNanos", 0)
                 /\ r.fragment_id = Get(DocFragments[t[1]], "majorFragmentId", 0)
                 /\ r.minor_fragment_id = Get(DocMinors(t[1])[t[2]], "minorFragmentId", 0)

\* C3 witness: records from two fragments, each with two minor fragments, the last
\* record coming from the second operator of the last minor fragment
C3_Witness ==
    /\ pc = "done"
    /\ <<2, 2, 2>> \in Places
    /\ <<2, 1, 1>> \in Places
    /\ Len(DocMinors(1)) = 2
    /\ Len(operators) >= 5
    /\ operators[Len(operators)].fragment_id = 2
    /\ operators[Len(operators)].minor_fragment_id = 2
    /\ operators[Len(operators)].operator_id = 2
    /\ operators[1].setup_nanos = 111

\* the numeric fields of an extracted record and the document keys they come from
TimingFields ==
    {<<"operatorId", "operator_id">>, <<"operatorType", "operator_type">>,
     <<"setupNanos", "setup_nanos">>, <<"processNanos", "process_nanos">>,
     <<"waitNanos", "wait_nanos">>}
DetailedFields ==
    {<<"outputRecords", "output_records">>, <<"outputBytes", "output_bytes">>,
     <<"peakLocalMemoryAllocated", "peak_memory">>}

\* C4: absent substructure is no error and drops nothing: a document without
\* fragmentProfile, a fragment without minorFragmentProfile and a minor fragment
\* without operatorProfile contribute no record; every operator record and every
\* phase record of the document is emitted, an absent numeric field as 0 and an
\* absent phaseName as "Unknown".
C4_AbsentFieldsDefault ==
    /\ Extracted =>
          /\ Len(operators) = Cardinality(Places)
          /\ \A t \in Places :
                LET r == operators[PlaceIndex(t)]
                    present == DOMAIN DocOperator(t)
                IN /\ \A f \in TimingFields : f[1] \notin present => r[f[2]] = 0
                   /\ script = "detailed_profile_analysis" =>
                         /\ \A f \in DetailedFields : f[1] \notin present => r[f[2]] = 0
                         /\ "inputProfile" \notin present =>
                               r.input_records = 0 /\ r.input_bytes = 0
    /\ PhasesExtracted =>
          /\ Len(phases) = Len(DocPhases)
          /\ \A k \in 1..Len(DocPhases) :
                /\ phases[k].phase_name =
                      IF "phaseName" \in DOMAIN DocPhases[k]
                      THEN DocPhases[k]["phaseName"] ELSE "Unknown"
                /\ phases[k].duration_millis =
                      IF "durationMillis" \in DOMAIN DocPhases[k]
                      THEN DocPhases[k]["durationMillis"] ELSE 0

\* C4 witness: the report is complete for a document with a fragment lacking
\* minorFragmentProfile, a minor fragment lacking operatorProfile, an operator
\* record lacking every field the extractor reads and a phase record lacking both
C4_Witness ==
    /\ pc = "done" /\ script = "analyze_profile"
    /\ \E i \in 1..Len(DocFragments) : "minorFragmentProfile" \notin DOMAIN DocFragments[i]
    /\ \E i \in 1..Len(DocFragments) : \E j \in 1..Len(DocMinors(i)) :
          "operatorProfile" \notin DOMAIN DocMinors(i)[j]
    /\ \E t \in Places :
          /\ DOMAIN DocOperator(t) \cap OperatorKeys = {}
          /\ operators[PlaceIndex(t)].total_nanos = 0
    /\ \E k \in 1..Len(DocPhases) :
          /\ DOMAIN DocPhases[k] = {}
          /\ phases[k] = [phase_name |-> "Unknown", duration_millis |-> 0]

\* out holds the elements of inp in descending key order, equal keys in the order
\* they have in inp
Ranked(out, inp, Key(_)) ==
    /\ Len(out) = Len(inp)
    /\ \E p \in Permutations(1..Len(inp)) :
          /\ \A i \in 1..Len(inp) : out[i] = inp[p[i]]
          /\ \A i, j \in 1..Len(inp) :
                i < j => \/ Key(out[i]) > Key(out[j])
                         \/ Key(out[i]) = Key(out[j]) /\ p[i] < p[j]

\* the operators have been ranked
OperatorsRanked ==
    \/ script = "analyze_profile" /\ pc \in {"top_phases", "longest", "done"}
    \/ script = "detailed_profile_analysis" /\ pc \in {"recommend", "overall"}

\* the phases have been ranked
PhasesRanked == script = "analyze_profile" /\ pc \in {"longest", "done"}

\* C5: the ranked operators are the extracted operators in descending total_nanos
\* order and the ranked phases the extracted phases in descending duration_millis
\* order, records with equal keys in extraction order; ranking a ranked sequence
\* again leaves it unchanged.
C5_RankingStableDescending ==
    /\ OperatorsRanked =>
          /\ Ranked(sorted_operators, operators, LAMBDA x : x.total_nanos)
          /\ sort_operators(sorted_operators) = sorted_operators
    /\ PhasesRanked =>
          /\ Ranked(sorted_phases, phases, LAMBDA x : x.duration_millis)
          /\ sort_phases(sorted_phases) = sorted_phases

\* C5 witness: three operators were reordered, two of them tie and kept their
\* extraction order, and tied phases kept theirs
C5_Witness ==
    /\ pc = "done" /\ script = "analyze_profile"
    /\ Len(operators) = 3
    /\ sorted_operators # operators
    /\ \E i \in 1..2 :
          /\ sorted_operators[i].total_nanos = sorted_operators[i + 1].total_nanos
          /\ sorted_operators[i].operator_id < sorted_operators[i + 1].operator_id
          /\ sorted_operators[i].setup_nanos # sorted_operators[i + 1].setup_nanos
    /\ [i \in 1..4 |-> sorted_phases[i].phase_name] =
          <<"Planning", "Execution", "Parser", "Validation">>

\* analyze_bottlenecks has run
BottlenecksAnalyzed ==
    /\ script = "detailed_profile_analysis"
    /\ \/ pc \in {"breakdown", "recommend", "overall"}
       \/ pc = "done" /\ operators # <<>>

\* print_performance_recommendations has run
Recommended ==
    /\ script = "detailed_profile_analysis"
    /\ \/ pc = "overall"
       \/ pc = "done" /\ operators # <<>>

\* the operators of a printed list whose rows carry a derived value
RowOperators(rows) == {rows[i].op : i \in 1..Len(rows)}

\* the positions of the extracted operators that satisfy P
Matching(P(_)) == {k \in 1..Len(operators) : P(operators[k])}

\* the conditions of the classifier's table
TableHighWait(op) == op.wait_nanos > op.process_nanos /\ op.wait_nanos > 1000000
TableHighMemory(op) == op.peak_memory > 1000000
TableHighVolume(op) == op.input_records > 1000000
TableLowSelectivity(op) ==
    /\ op.input_records > 1000 /\ op.output_records > 0
    /\ 100 * op.output_records < op.input_records
TableExpensiveJoin(op) == Contains(op.operator_name, "Join") /\ op.total_nanos > 1000000000
TableExpensiveSort(op) == Contains(op.operator_name, "Sort") /\ op.peak_memory > 50000000

\* the conditions under which a recommendation is given
AdviceHighWait(op) == op.wait_nanos > 2 * op.process_nanos /\ op.wait_nanos > 10000000
AdviceHighMemory(op) == op.peak_memory > 100000000
AdviceFilter(op) ==
    /\ op.operator_name = "Filter" /\ op.input_records > 1000 /\ op.output_records > 0
    /\ 5 * op.output_records > 4 * op.input_records

\* C6 as stated: HighWait is waitNanos > processNanos and waitNanos > 1,000,000 in
\* the bottleneck list and also wherever high wait time is reported as detected.
C6_SameConditionEverywhere ==
    /\ BottlenecksAnalyzed =>
          \A k \in 1..Len(operators) :
              operators[k] \in RowOperators(high_wait_ops) <=> TableHighWait(operators[k])
    /\ Recommended =>
          (HighWaitText \in Range(recommendations) <=> Matching(TableHighWait) # {})

\* C6 amended: the bottleneck list holds exactly the operators with waitNanos >
\* processNanos and waitNanos > 1,000,000 (both strict); the "High wait times
\* detected" recommendation is given under a stricter condition: some operator
\* has waitNanos > 2 * processNanos and waitNanos > 10,000,000.
C6_HighWaitListAndAdvice ==
    /\ BottlenecksAnalyzed =>
          /\ \A k \in 1..Len(operators) :
                operators[k] \in RowOperators(high_wait_ops) <=> TableHighWait(operators[k])
          /\ Len(high_wait_ops) = Cardinality(Matching(TableHighWait))
    /\ Recommended =>
          /\ HighWaitText \in Range(recommendations) <=> Matching(AdviceHighWait) # {}
          /\ Matching(AdviceHighWait) \subseteq Matching(TableHighWait)

\* C6 witness: an operator waiting exactly twice its processing time is listed
\* with high wait time and no high-wait recommendation is given
C6_Witness ==
    /\ pc = "done"
    /\ high_wait_ops # <<>>
    /\ HighWaitText \notin Range(recommendations)
    /\ \E k \in 1..Len(operators) :
          operators[k].wait_nanos = 10000002 /\ operators[k].process_nanos = 5000001

\* C7 as stated: HighMemory is peakMemoryBytes > 1,000,000 in the bottleneck list
\* and also wherever high memory usage is reported as detected.
C7_SameThresholdEverywhere ==
    /\ BottlenecksAnalyzed =>
          \A k \in 1..Len(operators) :
              operators[k] \in Range(high_memory_ops) <=> TableHighMemory(operators[k])
    /\ Recommended =>
          (HighMemoryText \in Range(recommendations) <=> Matching(TableHighMemory) # {})

\* C7 amended: the bottleneck list holds exactly the operators with peak memory >
\* 1,000,000 (strict); the "High memory usage detected" recommendation is given
\* under a higher threshold: some operator has peak memory > 100,000,000.
C7_HighMemoryListAndAdvice ==
    /\ BottlenecksAnalyzed =>
          /\ \A k \in 1..Len(operators) :
                operators[k] \in Range(high_memory_ops) <=> TableHighMemory(operators[k])
          /\ Len(high_memory_ops) = Cardinality(Matching(TableHighMemory))
    /\ Recommended =>
          /\ HighMemoryText \in Range(recommendations) <=> Matching(AdviceHighMemory) # {}
          /\ Matching(AdviceHighMemory) \subseteq Matching(TableHighMemory)

\* C7 witness: one operator with exactly 1,000,000 bytes is not listed, another is
\* listed, and no high-memory recommendation is given
C7_Witness ==
    /\ pc = "done"
    /\ \E k \in 1..Len(operators) :
          operators[k].peak_memory = 1000000 /\ operators[k] \notin Range(high_memory_ops)
    /\ high_memory_ops # <<>>
    /\ HighMemoryText \notin Range(recommendations)

\* C8 as stated: LowSelectivity is inputRecords > 1,000 and outputRecords > 0 and
\* 100 * outputRecords < inputRecords in the bottleneck list and also wherever
\* low-selectivity operators are reported, for operators of every type.
C8_SameConditionEverywhere ==
    /\ BottlenecksAnalyzed =>
          \A k \in 1..Len(operators) :
              operators[k] \in RowOperators(poor_selectivity_ops)
                  <=> TableLowSelectivity(operators[k])
    /\ Recommended =>
          (LowSelectivityText \in Range(recommendations)
              <=> Matching(TableLowSelectivity) # {})

\* C8 amended: the bottleneck list holds exactly the operators, of any type, with
\* inputRecords > 1,000, outputRecords > 0 and 100 * outputRecords < inputRecords,
\* so never one with outputRecords = 0; the "Low-selectivity filters detected"
\* recommendation follows another condition: some operator named "Filter" has
\* inputRecords > 1,000, outputRecords > 0 and outputRecords / inputRecords > 0.8.
C8_LowSelectivityListAndAdvice ==
    /\ BottlenecksAnalyzed =>
          /\ \A k \in 1..Len(operators) :
                /\ operators[k] \in RowOperators(poor_selectivity_ops)
                      <=> TableLowSelectivity(operators[k])
                /\ operators[k].output_records = 0 =>
                      operators[k] \notin RowOperators(poor_selectivity_ops)
          /\ Len(poor_selectivity_ops) = Cardinality(Matching(TableLowSelectivity))
    /\ Recommended =>
          (LowSelectivityText \in Range(recommendations) <=> Matching(AdviceFilter) # {})

\* C8 witness: an operator that is not a Filter is listed with low selectivity, one
\* with no output records is not, and no low-selectivity recommendation is given
C8_Witness ==
    /\ pc = "done"
    /\ \E i \in 1..Len(poor_selectivity_ops) :
          poor_selectivity_ops[i].op.operator_name = "Project"
    /\ \E k \in 1..Len(operators) :
          /\ operators[k].output_records = 0
          /\ operators[k] \notin RowOperators(poor_selectivity_ops)
    /\ LowSelectivityText \notin Range(recommendations)

\* C9: the "Expensive joins detected" finding is given exactly when some operator
\* has a name containing "Join" and total_nanos > 1,000,000,000 (strict); the names
\* containing "Join" are those of type codes 4, 5 and 35 and of no other code, so
\* never an "Unknown(<code>)" name.
C9_ExpensiveJoin ==
    /\ \A code \in (0 - MaxUnknownCodes)..(68 + MaxUnknownCodes) :
          Contains(get_operator_type_name(code), "Join") <=> code \in {4, 5, 35}
    /\ get_operator_type_name(4) = "HashJoin"
    /\ get_operator_type_name(5) = "MergeJoin"
    /\ get_operator_type_name(35) = "NestedLoopJoin"
    /\ Recommended =>
          /\ ExpensiveJoinText \in Range(recommendations)
                <=> Matching(TableExpensiveJoin) # {}
          /\ ExpensiveJoinText \in Range(recommendations)
                <=> \E k \in 1..Len(operators) :
                        /\ operators[k].operator_type \in {4, 5, 35}
                        /\ operators[k].total_nanos > 1000000000

\* C9 witness: the finding is given for a NestedLoopJoin above one second
C9_Witness ==
    /\ pc = "done"
    /\ ExpensiveJoinText \in Range(recommendations)
    /\ \A k \in 1..Len(operators) :
          operators[k].total_nanos > 1000000000 => operators[k].operator_type = 35
    /\ \E k \in 1..Len(operators) : operators[k].total_nanos = 1000000001

\* one of the six conditions of the classifier's table holds of op
TableAnomaly(op) ==
    \/ TableHighWait(op) \/ TableHighMemory(op) \/ TableHighVolume(op)
    \/ TableLowSelectivity(op) \/ TableExpensiveJoin(op) \/ TableExpensiveSort(op)

\* one of the five conditions of a recommendation holds of op
AdviceCondition(op) ==
    \/ AdviceHighWait(op) \/ AdviceHighMemory(op) \/ AdviceFilter(op)
    \/ TableExpensiveJoin(op) \/ TableExpensiveSort(op)

\* C10 as stated: once the recommendations have been printed, "no issues" has been
\* reported exactly when no operator satisfies any of the six rules.
C10_NoIssuesIffNoAnomaly ==
    Recommended =>
        (NoIssuesText \in Range(stdout) <=> Matching(TableAnomaly) = {})

\* C10 amended: for a non-empty operator sequence "No major performance issues
\* detected" is reported exactly when no operator satisfies any of the five
\* recommendation conditions (waitNanos > 2 * processNanos and > 10,000,000; peak
\* memory > 100,000,000; a Filter with inputRecords > 1,000, outputRecords > 0 and
\* ratio > 0.8; a Join above 1,000,000,000 ns; a Sort above 50,000,000 bytes); for an
\* empty sequence it is not reported at all.
C10_NoIssuesIffNoAdvice ==
    /\ pc = "done" /\ script = "detailed_profile_analysis" =>
          (NoIssuesText \in Range(stdout)
              <=> operators # <<>> /\ Matching(AdviceCondition) = {})
    /\ Recommended =>
          (NoIssuesText \in Range(stdout) <=> recommendations = <<>>)

\* C10 witness: "no major issues" is reported although operators were listed for
\* high record volume and for low selectivity
C10_Witness ==
    /\ pc = "done"
    /\ NoIssuesText \in Range(stdout)
    /\ high_record_ops # <<>>
    /\ poor_selectivity_ops # <<>>

\* the summary keys that describe operators, in either program
OperatorSummaryKeys ==
    {"total_operator_time", "max_operator_time", "avg_operator_time",
     "number_of_operators", "total_operators", "total_time", "total_memory",
     "total_records", "overall_throughput"}

\* the summary keys that describe phases
PhaseSummaryKeys == {"total_phase_time", "max_phase_time", "number_of_phases"}

\* what a run on a document without operators has produced so far: no division by
\* zero, no bottleneck list, no recommendation, no operator statistic
ZeroOperatorsReport ==
    /\ zero_division = FALSE
    /\ operators = <<>>
    /\ high_wait_ops = <<>> /\ high_memory_ops = <<>>
    /\ high_record_ops = <<>> /\ poor_selectivity_ops = <<>>
    /\ recommendations = <<>>
    /\ DOMAIN summary \cap OperatorSummaryKeys = {}
    /\ type_distribution = <<>> /\ sorted_operators = <<>> /\ top_operators = <<>>
    /\ "longest_operator" \notin DOMAIN longest
    /\ pc = "done" /\ script = "detailed_profile_analysis" =>
          stdout = <<NoOperatorDataText>>
    /\ pc = "done" /\ script = "analyze_profile" =>
          /\ stdout = <<>>
          /\ DOMAIN summary =
                {"total_query_time", "planning_time"}
                \cup (IF DocPhases # <<>> THEN PhaseSummaryKeys ELSE {})

\* C11: for a document that yields zero operators the analysis runs to its end
\* without an error (every run reaches the end of main, no division by zero is
\* evaluated), no bottleneck list and no recommendation is produced, and the
\* operator summary statistics (total, max, average operator time, overall
\* throughput) are absent from the report; the detailed analysis prints only
\* "No operator data found".
C11_ZeroOperators ==
    /\ [](Places = {} => ZeroOperatorsReport)
    /\ (Places = {}) ~> (Places = {} /\ pc = "done")

\* C11 witness: both programs have finished on a document that has fragments and
\* minor fragments but no operator record
C11_Witness ==
    /\ pc = "done"
    /\ DocFragments # <<>>
    /\ \E i \in 1..Len(DocFragments) :
          \E j \in 1..Len(DocMinors(i)) : "operatorProfile" \in DOMAIN DocMinors(i)[j]
    /\ Places = {}
    /\ DocPhases # <<>>

\* the quotients held by the bottleneck rows and by the breakdown rows
RowQuotients ==
    {high_wait_ops[i].wait_pct : i \in 1..Len(high_wait_ops)}
    \cup {high_record_ops[i].throughput : i \in 1..Len(high_record_ops)}
    \cup {poor_selectivity_ops[i].selectivity : i \in 1..Len(poor_selectivity_ops)}
    \cup UNION {{top_operators[i][k] :
                    k \in DOMAIN top_operators[i] \cap
                          {"setup_pct", "process_pct", "wait_pct", "records_per_sec",
                           "selectivity"}}
                : i \in {j \in 1..Len(top_operators) : script = "detailed_profile_analysis"}}
    \cup (IF "overall_throughput" \in DOMAIN summary
          THEN {summary.overall_throughput} ELSE {})

\* C12: no division is evaluated with a zero divisor.  The average operator time is
\* computed only when there are operators, the throughput only when processNanos > 0
\* (0 in the high-volume list otherwise), the selectivity only when inputRecords > 0,
\* a percentage of the total only when totalNanos > 0, the per-type average only
\* for a type counted at least once, and the overall throughput only when the
\* total time is > 0.
C12_NoZeroDivisor ==
    /\ zero_division = FALSE
    /\ \A q \in RowQuotients : q.den > 0
    /\ "avg_operator_time" \in DOMAIN summary => Len(operators) > 0
    /\ "overall_throughput" \in DOMAIN summary =>
          summary.overall_throughput.den = summary.total_time /\ summary.total_time > 0
    /\ \A i \in 1..Len(type_distribution) : type_distribution[i].count >= 1
    /\ \A i \in 1..Len(high_wait_ops) :
          LET row == high_wait_ops[i]
          IN IF row.op.total_nanos > 0
             THEN row.wait_pct = Quot(row.op.wait_nanos, row.op.total_nanos)
             ELSE row.wait_pct.num = 0
    /\ \A i \in 1..Len(high_record_ops) :
          LET row == high_record_ops[i]
          IN IF row.op.process_nanos > 0
             THEN row.throughput = Quot(row.op.input_records, row.op.process_nanos)
             ELSE row.throughput.num = 0
    /\ \A i \in 1..Len(poor_selectivity_ops) :
          LET row == poor_selectivity_ops[i]
          IN row.op.input_records > 0
             /\ row.selectivity = Quot(row.op.output_records, row.op.input_records)
    /\ script = "detailed_profile_analysis" =>
          \A i \in 1..Len(top_operators) :
              LET row == top_operators[i]
              IN /\ "wait_pct" \in DOMAIN row <=> row.op.total_nanos > 0
                 /\ "records_per_sec" \in DOMAIN row => row.op.process_nanos > 0
                 /\ "selectivity" \in DOMAIN row => row.op.input_records > 0

\* C12 witness: the detailed analysis has finished on operators of which one is
\* listed for high record volume with processNanos = 0 and appears in the breakdown
\* with totalNanos = 0, while the overall throughput was computed
C12_Witness ==
    /\ pc = "done" /\ script = "detailed_profile_analysis"
    /\ \E i \in 1..Len(high_record_ops) : high_record_ops[i].op.process_nanos = 0
    /\ \E i \in 1..Len(top_operators) :
          top_operators[i].op.total_nanos = 0 /\ top_operators[i].op.input_records > 0
    /\ "overall_throughput" \in DOMAIN summary

\* analyze_profile_file has looked for the longest items
LongestReported == script = "analyze_profile" /\ pc = "done"

\* position i holds the first-extracted of the records of xs with the largest key
FirstMaximal(xs, i, Key(_)) ==
    /\ i \in 1..Len(xs)
    /\ \A j \in 1..Len(xs) : Key(xs[j]) <= Key(xs[i])
    /\ \A j \in 1..(i - 1) : Key(xs[j]) < Key(xs[i])

\* C13: the longest-running operator reported is the first element of the ranked
\* operator sequence and the longest-running phase the first element of the ranked
\* phase sequence; when several records tie for the maximum it is the
\* first-extracted of them in both; for an empty sequence no longest item is
\* reported.
C13_LongestIsFirstRanked ==
    LongestReported =>
        /\ "longest_operator" \in DOMAIN longest <=> operators # <<>>
        /\ "longest_phase" \in DOMAIN longest <=> phases # <<>>
        /\ operators # <<>> =>
              /\ longest.longest_operator = sorted_operators[1]
              /\ \E i \in 1..Len(operators) :
                    /\ FirstMaximal(operators, i, LAMBDA x : x.total_nanos)
                    /\ longest.longest_operator = operators[i]
        /\ phases # <<>> =>
              /\ longest.longest_phase = sorted_phases[1]
              /\ \E i \in 1..Len(phases) :
                    /\ FirstMaximal(phases, i, LAMBDA x : x.duration_millis)
                    /\ longest.longest_phase = phases[i]

\* C13 witness: two operators tie for the largest total, neither extracted first,
\* and two phases tie for the largest duration; the earlier of each pair is reported
C13_Witness ==
    /\ LongestReported
    /\ \E i, j \in 2..Len(operators) :
          /\ i < j
          /\ operators[i].total_nanos = operators[j].total_nanos
          /\ FirstMaximal(operators, i, LAMBDA x : x.total_nanos)
          /\ longest.longest_operator = operators[i]
    /\ \E i, j \in 1..Len(phases) :
          /\ i < j
          /\ phases[i].duration_millis = phases[j].duration_millis
          /\ phases[i] # phases[j]
          /\ FirstMaximal(phases, i, LAMBDA x : x.duration_millis)
          /\ longest.longest_phase = phases[i]

\* print_detailed_operator_breakdown has printed its rows
BreakdownPrinted ==
    script = "detailed_profile_analysis" /\ pc \in {"recommend", "overall", "done"}

\* the high-volume rows and the low-selectivity rows of operator op
VolumeRowsOf(op) == {r \in Range(high_record_ops) : r.op = op}
SelectivityRowsOf(op) == {r \in Range(poor_selectivity_ops) : r.op = op}

\* C14 as stated: in the breakdown the throughput is shown exactly when
\* processNanos > 0 and the selectivity exactly when inputRecords > 0, in
\* analyze_bottlenecks under the same conditions, and the values of an operator
\* are the same in both places.
C14_SameValueSameCondition ==
    BreakdownPrinted =>
        \A i \in 1..Len(top_operators) :
            LET row == top_operators[i]
                op == row.op
            IN /\ "records_per_sec" \in DOMAIN row <=> op.process_nanos > 0
               /\ "selectivity" \in DOMAIN row <=> op.input_records > 0
               /\ \A r \in VolumeRowsOf(op) :
                     op.process_nanos > 0 => r.throughput = row.records_per_sec
               /\ \A r \in SelectivityRowsOf(op) : r.selectivity = row.selectivity

\* C14 amended: an operator that has a throughput or a selectivity in both places
\* has the same value in both.  The conditions differ: the breakdown shows the
\* throughput when inputRecords > 0 and processNanos > 0 and nothing otherwise,
\* while analyze_bottlenecks computes it for the operators above 1,000,000 input
\* records, as 0 when processNanos = 0; the breakdown shows the selectivity when
\* inputRecords > 0 and outputRecords > 0, while analyze_bottlenecks computes it
\* when inputRecords > 1,000 and outputRecords > 0; an operator without output
\* records has a selectivity in neither place.
C14_SameValueWhereBothComputed ==
    BreakdownPrinted =>
        /\ \A i \in 1..Len(top_operators) :
              LET row == top_operators[i]
                  op == row.op
              IN /\ "records_per_sec" \in DOMAIN row
                       <=> op.input_records > 0 /\ op.process_nanos > 0
                 /\ "selectivity" \in DOMAIN row
                       <=> op.input_records > 0 /\ op.output_records > 0
                 /\ \A r \in VolumeRowsOf(op) :
                       IF op.process_nanos > 0
                       THEN /\ "records_per_sec" \in DOMAIN row
                            /\ r.throughput = row.records_per_sec
                       ELSE /\ "records_per_sec" \notin DOMAIN row
                            /\ r.throughput.num = 0
                 /\ \A r \in SelectivityRowsOf(op) :
                       /\ "selectivity" \in DOMAIN row
                       /\ r.selectivity = row.selectivity
        /\ \A r \in Range(high_record_ops) : r.op.input_records > 1000000
        /\ \A r \in Range(poor_selectivity_ops) :
              r.op.input_records > 1000 /\ r.op.output_records > 0

\* C14 witness: one operator is in the high-volume list, in the low-selectivity list
\* and in the breakdown with the same throughput and selectivity; another has a
\* selectivity below 1% in the breakdown and none in analyze_bottlenecks, its input
\* being 1,000 records or fewer
C14_Witness ==
    /\ BreakdownPrinted
    /\ \E i \in 1..Len(top_operators) :
          LET row == top_operators[i]
          IN /\ VolumeRowsOf(row.op) # {} /\ SelectivityRowsOf(row.op) # {}
             /\ row.op.process_nanos > 0
             /\ \A r \in VolumeRowsOf(row.op) : r.throughput = row.records_per_sec
    /\ \E i \in 1..Len(top_operators) :
          LET row == top_operators[i]
          IN /\ "selectivity" \in DOMAIN row
             /\ 100 * row.op.output_records < row.op.input_records
             /\ row.op.input_records <= 1000
             /\ SelectivityRowsOf(row.op) = {}

RECURSIVE FieldTotal(_, _, _)
\* the total of field over the first n entries of list, an entry without the
\* field counting 0
FieldTotal(list, field, n) ==
    IF n = 0 THEN 0
    ELSE FieldTotal(list, field, n - 1)
         + (IF field \in DOMAIN list[n] THEN list[n][field] ELSE 0)

\* C15: every operator extracted by extract_detailed_metrics has input_records equal
\* to the sum of the records fields and input_bytes equal to the sum of the size
\* fields over all entries of its inputProfile list, an entry lacking the field
\* contributing 0, and both are 0 without inputProfile; output_records,
\* output_bytes and peak_memory are the operator's own outputRecords, outputBytes
\* and peakLocalMemoryAllocated (0 when absent), whatever inputProfile holds.
C15_InputTotals ==
    Extracted /\ script = "detailed_profile_analysis" =>
        \A t \in Places :
            LET r == operators[PlaceIndex(t)]
                op == DocOperator(t)
                entries == IF "inputProfile" \in DOMAIN op THEN op["inputProfile"] ELSE <<>>
            IN /\ r.input_records = FieldTotal(entries, "records", Len(entries))
               /\ r.input_bytes = FieldTotal(entries, "size", Len(entries))
               /\ "inputProfile" \notin DOMAIN op => r.input_records = 0 /\ r.input_bytes = 0
               /\ \A f \in DetailedFields :
                     r[f[2]] = IF f[1] \in DOMAIN op THEN op[f[1]] ELSE 0

\* C15 witness: an operator with two inputProfile entries, one of them lacking size,
\* and with output fields of its own was extracted
C15_Witness ==
    /\ Extracted /\ script = "detailed_profile_analysis"
    /\ \E t \in Places :
          LET r == operators[PlaceIndex(t)]
              op == DocOperator(t)
          IN /\ "inputProfile" \in DOMAIN op
             /\ Len(op["inputProfile"]) = 2
             /\ DOMAIN op["inputProfile"][1] = {"records", "size"}
             /\ DOMAIN op["inputProfile"][2] = {"records"}
             /\ r.input_records = op["inputProfile"][1]["records"] + op["inputProfile"][2]["records"]
             /\ r.input_bytes = op["inputProfile"][1]["size"]
             /\ r.input_bytes > 0
             /\ r.output_records > 0 /\ r.output_records # r.input_records

\* the fields an OperatorTiming and a DetailedOperatorMetrics have in common
CommonFields ==
    {"operator_id", "operator_type", "operator_name", "setup_nanos", "process_nanos",
     "wait_nanos", "total_nanos", "fragment_id", "minor_fragment_id"}

\* C16: on every document analyze_operators and extract_detailed_metrics return
\* sequences of the same length whose records agree, position by position, on
\* operator_id, operator_type, operator_name, setup_nanos, process_nanos,
\* wait_nanos, total_nanos, fragment_id and minor_fragment_id; the two copies of
\* the catalog give the same name for every type code.
C16_ExtractorsAgree ==
    /\ DOMAIN operator_types = DOMAIN detailed_operator_types
    /\ Extracted =>
          LET timing == analyze_operators(profile_data)
              detailed == extract_detailed_metrics(profile_data)
          IN /\ operators = IF script = "analyze_profile" THEN timing ELSE detailed
             /\ Len(timing) = Len(detailed)
             /\ \A i \in 1..Len(operators) :
                   /\ \A f \in CommonFields : timing[i][f] = detailed[i][f]
                   /\ get_operator_type_name(operators[i].operator_type)
                         = detailed_get_operator_type_name(operators[i].operator_type)
                   /\ operators[i].operator_name
                         = get_operator_type_name(operators[i].operator_type)

\* C16 witness: the detailed analysis extracted operators from two fragments, among
\* them one of type 3 and one that declares no field at all
C16_Witness ==
    /\ Extracted /\ script = "detailed_profile_analysis"
    /\ \E i, j \in 1..Len(operators) :
          /\ operators[i].fragment_id # operators[j].fragment_id
          /\ operators[i].operator_type = 3
          /\ operators[i].operator_name = "HashAggregate"
    /\ \E t \in Places : DOMAIN DocOperator(t) \cap OperatorKeys = {}

====
